---- MODULE Spec2Model ----
(***************************************************************************)
(* Model of .github/workflows/publish-agol.py: the command-line script     *)
(* that uploads an ArcGIS Pro add-in to an ArcGIS Online item and          *)
(* optionally patches the item's title, description and tags.              *)
(*                                                                         *)
(* Text is modelled as a sequence of one-character strings.  The literal   *)
(* "Latest Version:" is abbreviated to the two characters of Marker; like  *)
(* the literal, Marker has no proper prefix that is also a suffix, so two  *)
(* occurrences never overlap.  An argument that was not given (None) and   *)
(* an empty one are both the empty sequence: the script only ever tests    *)
(* them for truthiness.                                                    *)
(***************************************************************************)
EXTENDS Integers, Sequences, FiniteSets, TLC

VARIABLES
    args,              \* the parsed command line (argparse namespace)
    portal,            \* the content item as stored by ArcGIS Online
    portal0,           \* the stored item as it was when the run started
    item,              \* the handle fetched in step 2 (its cached properties)
    updated_item,      \* the handle re-fetched in step 5
    item_to_update,    \* the handle re-fetched for the corrective update
    metadata_updates,  \* the dict built in step 3
    splice_via,        \* which branch of step 3 produced the description
    calls,             \* the client-library calls issued so far, in order
    pc,                \* the step the script is at
    exit_code,         \* the process's exit status, Running until it exits
    run                \* 1 for the first invocation, 2 for a repeated one

vars == <<args, portal, portal0, item, updated_item, item_to_update,
          metadata_updates, splice_via, calls, pc, exit_code, run>>

-----------------------------------------------------------------------------
(* Text primitives (Python str methods)                                    *)

Marker == <<"L", ":">>

Whitespace == {" ", "\n"}

DigitOrDot == {"1", "."}

SectionMarkers == {"T", "P"}

Min(S) == CHOOSE x \in S : \A y \in S : x <= y

Max(S) == CHOOSE x \in S : \A y \in S : x >= y

\* str.startswith
StartsWith(s, t) == Len(s) >= Len(t) /\ SubSeq(s, 1, Len(t)) = t

\* t occurs in s at (1-based) position i
OccursAt(s, t, i) == i >= 1 /\ i + Len(t) - 1 <= Len(s) /\ SubSeq(s, i, i + Len(t) - 1) = t

\* str.find, 1-based; 0 when t does not occur
Find(s, t) ==
    LET hits == {i \in 1..(Len(s) + 1) : OccursAt(s, t, i)}
    IN  IF hits = {} THEN 0 ELSE Min(hits)

\* str.replace(old, new, 1)
Replace1(s, old, new) ==
    LET i == Find(s, old)
    IN  IF i = 0 THEN s
        ELSE SubSeq(s, 1, i - 1) \o new \o SubSeq(s, i + Len(old), Len(s))

\* str.strip()
Strip(s) ==
    LET keep == {i \in 1..Len(s) : s[i] \notin Whitespace}
    IN  IF keep = {} THEN <<>> ELSE SubSeq(s, Min(keep), Max(keep))

\* str.split(sep) for a one-character separator
RECURSIVE Split(_, _)
Split(s, sep) ==
    LET cuts == {i \in 1..Len(s) : s[i] = sep}
    IN  IF cuts = {} THEN <<s>>
        ELSE <<SubSeq(s, 1, Min(cuts) - 1)>> \o Split(SubSeq(s, Min(cuts) + 1, Len(s)), sep)

\* sep.join(parts)
RECURSIVE Join(_, _)
Join(parts, sep) ==
    IF Len(parts) = 0 THEN <<>>
    ELSE IF Len(parts) = 1 THEN parts[1]
    ELSE parts[1] \o sep \o Join(Tail(parts), sep)

-----------------------------------------------------------------------------
(* The five regular expressions of step 3, searched with                   *)
(* re.MULTILINE | re.DOTALL.  XEnd(s, i) is the position just after the    *)
(* match of pattern X that starts at i, or 0 when there is none.           *)

\* first position >= i whose character is not in class (Len(s)+1 at the end)
SkipWhile(s, i, class) ==
    Min({k \in i..(Len(s) + 1) : k = Len(s) + 1 \/ s[k] \notin class})

\* the lookahead (?=\n|$): "$" in MULTILINE mode holds at the end of the
\* text and just before a newline
AtLineEnd(s, k) == k = Len(s) + 1 \/ s[k] = "\n"

\* the lookahead of pattern3
AtSectionEnd(s, k) ==
    \/ (k + 1 <= Len(s) /\ s[k] = "\n" /\ s[k + 1] = "\n")
    \/ (k + 1 <= Len(s) /\ s[k] = "\n" /\ s[k + 1] \in SectionMarkers)
    \/ AtLineEnd(s, k)

\* pattern1 written greedy ("?" dropped): with DOTALL it runs to the end
pattern1End_Greedy(s, i) ==
    IF ~OccursAt(s, Marker, i) THEN 0 ELSE Len(s) + 1

\* pattern1 written with a blank after the colon
pattern1End_NeedsSpace(s, i) ==
    IF ~(OccursAt(s, Marker, i) /\ i + Len(Marker) <= Len(s) /\ s[i + Len(Marker)] = " ") THEN 0
    ELSE Min({k \in (i + Len(Marker) + 1)..(Len(s) + 1) : AtLineEnd(s, k)})

\* pattern1 consuming the newline instead of looking ahead for it
pattern1End_TakesNewline(s, i) ==
    IF ~OccursAt(s, Marker, i) THEN 0
    ELSE LET eol == Min({k \in (i + Len(Marker))..(Len(s) + 1) : AtLineEnd(s, k)})
         IN  IF eol <= Len(s) THEN eol + 1 ELSE eol

\* pattern1 = r'Latest Version:.*?(?=\n|$)'
pattern1End(s, i) ==
    IF ~OccursAt(s, Marker, i) THEN 0
    ELSE Min({k \in (i + Len(Marker))..(Len(s) + 1) : AtLineEnd(s, k)})

\* pattern2 = r'Latest Version:\s*v[\d.]+\s*.*?(?=\n|$)'
pattern2End(s, i) ==
    IF ~OccursAt(s, Marker, i) THEN 0
    ELSE LET v == SkipWhile(s, i + Len(Marker), Whitespace)
         IN  IF ~(v + 1 <= Len(s) /\ s[v] = "v" /\ s[v + 1] \in DigitOrDot) THEN 0
             ELSE LET num == SkipWhile(s, v + 1, DigitOrDot)
                      ws  == SkipWhile(s, num, Whitespace)
                  IN  Min({k \in ws..(Len(s) + 1) : AtLineEnd(s, k)})

\* pattern3 = r'Latest Version:.*?(?=\n\n|\n<trophy>|\n<package>|\n\n|$)'
pattern3End(s, i) ==
    IF ~OccursAt(s, Marker, i) THEN 0
    ELSE Min({k \in (i + Len(Marker))..(Len(s) + 1) : AtSectionEnd(s, k)})

\* pattern4 = r'Latest Version:[^\n]*(?:\n|$)'
pattern4End(s, i) ==
    IF ~OccursAt(s, Marker, i) THEN 0
    ELSE LET eol == Min({k \in (i + Len(Marker))..(Len(s) + 1) : AtLineEnd(s, k)})
         IN  IF eol <= Len(s) THEN eol + 1 ELSE eol

\* pattern5 = r'Latest Version:.*'
pattern5End(s, i) ==
    IF ~OccursAt(s, Marker, i) THEN 0 ELSE Len(s) + 1

PatternEnd(p, s, i) ==
    CASE p = 1 -> pattern1End(s, i)
      [] p = 2 -> pattern2End(s, i)
      [] p = 3 -> pattern3End(s, i)
      [] p = 4 -> pattern4End(s, i)
      [] p = 5 -> pattern5End(s, i)

\* re.search(pattern, s): the leftmost match; [found, text]
Search(p, s) ==
    LET starts == {i \in 1..(Len(s) + 1) : PatternEnd(p, s, i) # 0}
    IN  IF starts = {} THEN [found |-> FALSE, text |-> <<>>]
        ELSE LET i == Min(starts)
             IN  [found |-> TRUE, text |-> SubSeq(s, i, PatternEnd(p, s, i) - 1)]

-----------------------------------------------------------------------------
(* Step 3: the description to send                                         *)

\* the loop over [pattern1 .. pattern5]: the first pattern that matches, 0 if none
FirstPattern(current_desc) ==
    LET ms == {p \in 1..5 : Search(p, current_desc).found}
    IN  IF ms = {} THEN 0 ELSE Min(ms)

\* the line-by-line replacement: every line whose stripped text starts with
\* the marker becomes new_line
LineReplace(current_desc, new_line) ==
    LET lines == Split(current_desc, "\n")
        updated_lines == [n \in 1..Len(lines) |->
                            IF StartsWith(Strip(lines[n]), Marker) THEN new_line ELSE lines[n]]
    IN  [replaced |-> \E n \in 1..Len(lines) : StartsWith(Strip(lines[n]), Marker),
         text |-> Join(updated_lines, <<"\n">>)]

\* the version-line branch (description starts with the marker)
VersionSplice(current_desc, description) ==
    LET p == FirstPattern(current_desc)
    IN  IF p # 0
        THEN [via |-> <<"pattern", p>>,
              text |-> Replace1(current_desc, Search(p, current_desc).text, Strip(description))]
        ELSE LET lr == LineReplace(current_desc, Strip(description))
             IN  IF lr.replaced
                 THEN [via |-> <<"lines", 0>>, text |-> lr.text]
                 ELSE [via |-> <<"prepend", 0>>,
                       text |-> Strip(description) \o <<"\n", "\n">> \o current_desc]

\* the version-line test made on the stripped argument
NewDescription_StripsFirst(current_desc, description) ==
    IF StartsWith(Strip(description), Marker)
    THEN VersionSplice(current_desc, description)
    ELSE [via |-> <<"verbatim", 0>>, text |-> description]

\* metadata_updates["description"] for a non-empty --description
NewDescription(current_desc, description) ==
    IF StartsWith(description, Marker)
    THEN VersionSplice(current_desc, description)
    ELSE [via |-> <<"verbatim", 0>>, text |-> description]

\* tag_list = [tag.strip() for tag in args.tags.split(",")]
TagList(tags) ==
    LET parts == Split(tags, ",")
    IN  [n \in 1..Len(parts) |-> Strip(parts[n])]

\* the title written whether or not --title was given
MetadataKeys_AlwaysTitle(a) ==
    {k \in {"title", "description", "tags"} : k = "title" \/ a[k] # <<>>}

\* the keys of metadata_updates: one per argument that is truthy
MetadataKeys(a) ==
    {k \in {"title", "description", "tags"} : a[k] # <<>>}

MetadataUpdates(a, it) ==
    [k \in MetadataKeys(a) |->
        CASE k = "title" -> a.title
          [] k = "description" -> NewDescription(it.description, a.description).text
          [] k = "tags" -> TagList(a.tags)]

-----------------------------------------------------------------------------
(* The run                                                                 *)

PortalUrl == <<"u">>

ItemId == <<"i">>

AddinFile == <<"f">>

NoItem == [found |-> FALSE, title |-> <<>>, description |-> <<>>, tags |-> <<>>]

\* what gis.content.get returns for the stored item
Handle(p) ==
    [found |-> TRUE, title |-> p.title, description |-> p.description, tags |-> p.tags]

\* a call into the client library, as issued: where in the script, with which
\* keyword arguments, and how it ended ("ok", "false", "none" or "raise")
Call(op, site, kw, result) == [op |-> op, site |-> site, kw |-> kw, result |-> result]

\* the stored item after an update with these item_properties took effect
ApplyProperties(p, props) ==
    [p EXCEPT !.title = IF "title" \in DOMAIN props THEN props.title ELSE @,
              !.description = IF "description" \in DOMAIN props THEN props.description ELSE @,
              !.tags = IF "tags" \in DOMAIN props THEN props.tags ELSE @]

\* sys.exit(code)
Exit(code) == pc' = "exited" /\ exit_code' = code

\* "and" for "or" in the credential tests: one credential is enough
ValidInputs_EitherCredential(a) ==
    /\ a.addin_exists
    /\ IF a.auth_method = "token"
       THEN a.client_id # <<>> \/ a.client_secret # <<>>
       ELSE a.username # <<>> \/ a.password # <<>>

\* lines 89-102: input validation
ValidInputs(a) ==
    /\ a.addin_exists
    /\ IF a.auth_method = "token"
       THEN a.client_id # <<>> /\ a.client_secret # <<>>
       ELSE a.username # <<>> /\ a.password # <<>>

Validate ==
    /\ pc = "validate"
    /\ IF ValidInputs(args) THEN pc' = "auth" /\ exit_code' = exit_code ELSE Exit(1)
    /\ UNCHANGED <<args, portal, portal0, item, updated_item, item_to_update,
                   metadata_updates, splice_via, calls, run>>

\* the keyword arguments of the GIS(...) constructor call
AuthKwargs(a) ==
    IF a.auth_method = "token"
    THEN [url |-> PortalUrl, client_id |-> a.client_id, client_secret |-> a.client_secret]
    ELSE [url |-> PortalUrl, username |-> a.username, password |-> a.password]

\* step 1
Authenticate(result) ==
    /\ pc = "auth"
    /\ calls' = Append(calls, Call("GIS", "auth", AuthKwargs(args), result))
    /\ IF result = "raise" THEN Exit(1) ELSE pc' = "get" /\ exit_code' = exit_code
    /\ UNCHANGED <<args, portal, portal0, item, updated_item, item_to_update,
                   metadata_updates, splice_via, run>>

\* step 2
GetItem(result) ==
    /\ pc = "get"
    /\ calls' = Append(calls, Call("content.get", "get", [item_id |-> ItemId], result))
    /\ IF result = "ok"
       THEN item' = Handle(portal) /\ pc' = "prepare" /\ exit_code' = exit_code
       ELSE item' = item /\ Exit(1)
    /\ UNCHANGED <<args, portal, portal0, updated_item, item_to_update,
                   metadata_updates, splice_via, run>>

\* step 3
PrepareMetadata ==
    /\ pc = "prepare"
    /\ metadata_updates' = MetadataUpdates(args, item)
    /\ splice_via' = IF args.description # <<>>
                     THEN NewDescription(item.description, args.description).via
                     ELSE <<"none", 0>>
    /\ pc' = "upload"
    /\ UNCHANGED <<args, portal, portal0, item, updated_item, item_to_update,
                   calls, exit_code, run>>

\* a failed upload reported but not fatal
UploadFile_ContinuesOnError(result) ==
    /\ pc = "upload"
    /\ calls' = Append(calls, Call("item.update", "upload",
                                   [data |-> AddinFile, thumbnail |-> <<>>], result))
    /\ portal' = IF result = "ok" THEN [portal EXCEPT !.data = AddinFile] ELSE portal
    /\ pc' = "metadata"
    /\ UNCHANGED <<args, portal0, item, updated_item, item_to_update,
                   metadata_updates, splice_via, exit_code, run>>

\* step 4
UploadFile(result) ==
    /\ pc = "upload"
    /\ calls' = Append(calls, Call("item.update", "upload",
                                   [data |-> AddinFile, thumbnail |-> <<>>], result))
    /\ portal' = IF result = "ok" THEN [portal EXCEPT !.data = AddinFile] ELSE portal
    /\ IF result = "raise" THEN Exit(1) ELSE pc' = "metadata" /\ exit_code' = exit_code
    /\ UNCHANGED <<args, portal0, item, updated_item, item_to_update,
                   metadata_updates, splice_via, run>>

\* where the script goes after step 4b
AfterMetadata == IF args.description # <<>> THEN "verify" ELSE "final"

\* a failed metadata update ending the run
UpdateMetadata_FailsRun(result) ==
    /\ pc = "metadata"
    /\ DOMAIN metadata_updates # {}
    /\ calls' = Append(calls, Call("item.update", "metadata",
                                   [item_properties |-> metadata_updates], result))
    /\ portal' = IF result = "ok" THEN ApplyProperties(portal, metadata_updates) ELSE portal
    /\ IF result = "raise" THEN Exit(1) ELSE pc' = AfterMetadata /\ exit_code' = exit_code
    /\ UNCHANGED <<args, portal0, item, updated_item, item_to_update,
                   metadata_updates, splice_via, run>>

\* step 4b, metadata_updates non-empty
UpdateMetadata(result) ==
    /\ pc = "metadata"
    /\ DOMAIN metadata_updates # {}
    /\ calls' = Append(calls, Call("item.update", "metadata",
                                   [item_properties |-> metadata_updates], result))
    /\ portal' = IF result = "ok" THEN ApplyProperties(portal, metadata_updates) ELSE portal
    /\ pc' = AfterMetadata
    /\ UNCHANGED <<args, portal0, item, updated_item, item_to_update,
                   metadata_updates, splice_via, exit_code, run>>

\* step 4b, metadata_updates empty: nothing is sent
SkipMetadata ==
    /\ pc = "metadata"
    /\ DOMAIN metadata_updates = {}
    /\ pc' = AfterMetadata
    /\ UNCHANGED <<args, portal, portal0, item, updated_item, item_to_update,
                   metadata_updates, splice_via, calls, exit_code, run>>

\* line 336: re.search(r'Latest Version:.*', description, re.MULTILINE);
\* without DOTALL "." stops at a newline
VersionLine(description) ==
    LET i == Find(description, Marker)
    IN  IF i = 0 THEN [found |-> FALSE, text |-> <<>>]
        ELSE LET eol == Min({k \in (i + Len(Marker))..(Len(description) + 1) :
                                AtLineEnd(description, k)})
             IN  [found |-> TRUE, text |-> SubSeq(description, i, eol - 1)]

\* lines 330-386: what step 5 does with the re-fetched description
VerifyBranch(a, description) ==
    LET expected_version == Strip(a.description)
        current_version_line == VersionLine(description)
    IN  IF description = <<>> THEN "fallback_update"
        ELSE IF ~StartsWith(expected_version, Marker) THEN "final"
        ELSE IF ~current_version_line.found THEN "final"
        ELSE IF Strip(current_version_line.text) = Strip(expected_version) THEN "final"
        ELSE "correct_fetch"

\* step 5, line 329
VerifyFetch(result) ==
    /\ pc = "verify"
    /\ calls' = Append(calls, Call("content.get", "verify", [item_id |-> ItemId], result))
    /\ IF result = "ok"
       THEN /\ updated_item' = Handle(portal)
            /\ pc' = VerifyBranch(args, portal.description)
       ELSE /\ updated_item' = NoItem
            /\ pc' = "final"
    /\ UNCHANGED <<args, portal, portal0, item, item_to_update,
                   metadata_updates, splice_via, exit_code, run>>

\* step 5, line 390: the re-fetched description is empty
FallbackUpdate(result) ==
    /\ pc = "fallback_update"
    /\ calls' = Append(calls, Call("item.update", "fallback_update",
                                   [item_properties |-> [description |-> args.description]],
                                   result))
    /\ portal' = IF result = "ok"
                 THEN ApplyProperties(portal, [description |-> args.description])
                 ELSE portal
    /\ pc' = "final"
    /\ UNCHANGED <<args, portal0, item, updated_item, item_to_update,
                   metadata_updates, splice_via, exit_code, run>>

\* step 5, line 351: the version line differs from the expected one
CorrectFetch(result) ==
    /\ pc = "correct_fetch"
    /\ calls' = Append(calls, Call("content.get", "correct_fetch", [item_id |-> ItemId], result))
    /\ IF result = "ok"
       THEN item_to_update' = Handle(portal) /\ pc' = "correct_update"
       ELSE item_to_update' = NoItem /\ pc' = "final"
    /\ UNCHANGED <<args, portal, portal0, item, updated_item,
                   metadata_updates, splice_via, exit_code, run>>

\* lines 352-373: the description of the corrective update
CorrectedDescription(a, current_desc) ==
    LET expected_line == Strip(Strip(a.description))
        lr == LineReplace(current_desc, expected_line)
    IN  IF lr.replaced THEN lr.text
        ELSE expected_line \o <<"\n", "\n">> \o current_desc

\* step 5, lines 368 and 373
CorrectUpdate(result) ==
    LET props == [description |-> CorrectedDescription(args, item_to_update.description)]
    IN  /\ pc = "correct_update"
        /\ calls' = Append(calls, Call("item.update", "correct_update",
                                       [item_properties |-> props], result))
        /\ portal' = IF result = "ok" THEN ApplyProperties(portal, props) ELSE portal
        /\ pc' = "final"
        /\ UNCHANGED <<args, portal0, item, updated_item, item_to_update,
                       metadata_updates, splice_via, exit_code, run>>

\* the final re-fetch guarded like step 5: its failure only reported
FinalFetch_ExitsZero(result) ==
    /\ pc = "final"
    /\ calls' = Append(calls, Call("content.get", "final", [item_id |-> ItemId], result))
    /\ Exit(0)
    /\ UNCHANGED <<args, portal, portal0, item, updated_item, item_to_update,
                   metadata_updates, splice_via, run>>

\* step 6
FinalFetch(result) ==
    /\ pc = "final"
    /\ calls' = Append(calls, Call("content.get", "final", [item_id |-> ItemId], result))
    /\ IF result = "ok" THEN Exit(0) ELSE Exit(1)
    /\ UNCHANGED <<args, portal, portal0, item, updated_item, item_to_update,
                   metadata_updates, splice_via, run>>

-----------------------------------------------------------------------------
(* The runs checked                                                        *)

Credentials == {<<>>, <<"s">>}

Titles == {<<>>, <<"n">>}

DescriptionArgs ==
    {<<>>, <<"x", " ">>, <<" ">> \o Marker \o <<"v", "1">>,
     Marker \o <<"v", "1">>, Marker \o <<"v", "1", " ">>}

TagArgs == {<<>>, <<"x">>, <<"x", ",", " ", "y", " ">>}

StoredDescriptions ==
    {<<>>, <<"x">>, Marker \o <<"v", "1">>,
     <<"x", "\n">> \o Marker \o <<"v">> \o <<"\n", "y">>}

Stored(description) ==
    [title |-> <<"o">>, description |-> description, tags |-> <<<<"o">>>>, data |-> <<"o">>]

Init ==
    /\ args \in [addin_exists : BOOLEAN, auth_method : {"token", "username"},
                 client_id : Credentials, client_secret : Credentials,
                 username : Credentials, password : Credentials,
                 title : Titles, description : DescriptionArgs, tags : TagArgs]
    /\ portal \in {Stored(d) : d \in StoredDescriptions}
    /\ portal0 = portal
    /\ item = NoItem
    /\ updated_item = NoItem
    /\ item_to_update = NoItem
    /\ metadata_updates = <<>>
    /\ splice_via = <<"none", 0>>
    /\ calls = <<>>
    /\ pc = "validate"
    /\ exit_code = -1
    /\ run = 1

Next ==
    \/ Validate
    \/ \E result \in {"ok", "raise"} : Authenticate(result)
    \/ \E result \in {"ok", "none", "raise"} : GetItem(result)
    \/ PrepareMetadata
    \/ \E result \in {"ok", "false", "raise"} : UploadFile(result)
    \/ \E result \in {"ok", "false", "raise"} : UpdateMetadata(result)
    \/ SkipMetadata
    \/ \E result \in {"ok", "none", "raise"} : VerifyFetch(result)
    \/ \E result \in {"ok", "false", "raise"} : FallbackUpdate(result)
    \/ \E result \in {"ok", "none", "raise"} : CorrectFetch(result)
    \/ \E result \in {"ok", "false", "raise"} : CorrectUpdate(result)
    \/ \E result \in {"ok", "none", "raise"} : FinalFetch(result)

Spec == Init /\ [][Next]_vars

-----------------------------------------------------------------------------
(* Step 3 on its own: every stored description of up to MaxPieces pieces,  *)
(* spliced with a version-line argument, and spliced again by a second     *)
(* invocation with the same argument once the first update was stored.     *)

MaxPieces == 4

Pieces == {Marker, <<"L">>, <<" ">>, <<"\n">>, <<"v">>, <<"1">>}

RECURSIVE TextsOf(_)
TextsOf(n) ==
    IF n = 0 THEN {<<>>}
    ELSE LET shorter == TextsOf(n - 1)
         IN  shorter \cup {t \o p : t \in shorter, p \in Pieces}

VersionArgs ==
    {Marker \o t : t \in {<<>>, <<"v">>, <<"v", "1">>, <<" ", "v", "1", " ">>,
                          <<"v", "\n">>, <<"v", "\n", "1">>, <<"\n", "\n", "v">>,
                          <<"v">> \o Marker}}

SpliceInit ==
    /\ args \in [addin_exists : {TRUE}, auth_method : {"token"},
                 client_id : {<<"s">>}, client_secret : {<<"s">>},
                 username : {<<>>}, password : {<<>>},
                 title : {<<>>}, description : VersionArgs, tags : {<<>>}]
    /\ portal \in {Stored(d) : d \in TextsOf(MaxPieces)}
    /\ portal0 = portal
    /\ item = Handle(portal)
    /\ updated_item = NoItem
    /\ item_to_update = NoItem
    /\ metadata_updates = <<>>
    /\ splice_via = <<"none", 0>>
    /\ calls = <<>>
    /\ pc = "prepare"
    /\ exit_code = -1
    /\ run = 1

\* the first run's update is stored and the script is invoked again with the
\* same arguments, up to step 3
SpliceRerun ==
    /\ pc = "upload"
    /\ run = 1
    /\ portal' = ApplyProperties(portal, metadata_updates)
    /\ item' = Handle(portal')
    /\ run' = 2
    /\ pc' = "prepare"
    /\ UNCHANGED <<args, portal0, updated_item, item_to_update, metadata_updates,
                   splice_via, calls, exit_code>>

SpliceNext == PrepareMetadata \/ SpliceRerun

SpliceSpec == SpliceInit /\ [][SpliceNext]_vars

-----------------------------------------------------------------------------
(* Properties                                                              *)

IsFileUpload(c) == c.op = "item.update" /\ "data" \in DOMAIN c.kw

IsMetadataUpdate(c) == c.op = "item.update" /\ "item_properties" \in DOMAIN c.kw

Raised(sites) == \E i \in 1..Len(calls) : calls[i].site \in sites /\ calls[i].result = "raise"

\* C1: a metadata update (step 4b or a corrective update of step 5) is only
\* ever issued after the file upload call, a separate call, has returned
\* without raising; if the file upload raises, the run has exited with
\* status 1, no metadata update was issued and the stored title, description
\* and tags are as they were.
C1_UploadBeforeMetadata ==
    /\ \A j \in 1..Len(calls) :
          IsMetadataUpdate(calls[j]) =>
              /\ ~IsFileUpload(calls[j])
              /\ \E i \in 1..(j - 1) : IsFileUpload(calls[i]) /\ calls[i].result # "raise"
    /\ \A j \in 1..Len(calls) :
          (IsFileUpload(calls[j]) /\ calls[j].result = "raise") =>
              /\ pc = "exited" /\ exit_code = 1
              /\ \A k \in 1..Len(calls) : ~IsMetadataUpdate(calls[k])
              /\ portal.title = portal0.title
              /\ portal.description = portal0.description
              /\ portal.tags = portal0.tags

C1_Witness ==
    /\ Len(calls) >= 2
    /\ calls[Len(calls)].site = "correct_update"
    /\ \E i \in 1..Len(calls) : calls[i].site = "metadata"

\* C2 as stated: no run in which some library call raised ends with exit
\* status 0.
C2_AnyRaiseExitsNonZero ==
    (pc = "exited" /\ \E i \in 1..Len(calls) : calls[i].result = "raise") => exit_code = 1

FatalSites == {"auth", "get", "upload", "final"}

CaughtSites == {"metadata", "verify", "fallback_update", "correct_fetch", "correct_update"}

\* C2, amended: when authentication, the item fetch, the file upload or the
\* final re-fetch raises, the run has terminated with exit status 1; when the
\* step-4b metadata update, the verification re-fetch, the corrective
\* re-fetch or a corrective description update raises, the exception is
\* caught and the run goes on to the next step.
C2_FatalRaiseExitsOne ==
    /\ Raised(FatalSites) => (pc = "exited" /\ exit_code = 1)
    /\ (pc = "exited" /\ exit_code = 0) => ~Raised(FatalSites)
    /\ (calls # <<>> /\ calls[Len(calls)].site \in CaughtSites
            /\ calls[Len(calls)].result = "raise") => pc \in {"verify", "final"}

C2_Witness ==
    /\ pc = "exited"
    /\ Raised({"final"})
    /\ Raised({"metadata"})

\* C3: no remote call is made unless the add-in file exists and both
\* credentials of the selected method are non-empty; failed validation exits
\* with status 1 and no call; authentication is attempted exactly once, with
\* the selected method's credentials only.
C3_ValidationGuardsCalls ==
    LET selected == IF args.auth_method = "token"
                    THEN {"client_id", "client_secret"}
                    ELSE {"username", "password"}
        valid == args.addin_exists /\ \A k \in selected : args[k] # <<>>
        auths == {i \in 1..Len(calls) : calls[i].op = "GIS"}
    IN  /\ calls # <<>> => valid
        /\ (~valid /\ pc # "validate") => (pc = "exited" /\ exit_code = 1 /\ calls = <<>>)
        /\ (valid /\ pc \notin {"validate", "auth"}) => auths = {1}
        /\ Cardinality(auths) <= 1
        /\ \A i \in auths :
              /\ DOMAIN calls[i].kw = selected \cup {"url"}
              /\ \A k \in selected : calls[i].kw[k] = args[k]

C3_Witness ==
    /\ args.auth_method = "username"
    /\ args.client_id = <<>> /\ args.client_secret = <<>>
    /\ Len(calls) >= 2
    /\ calls[1].op = "GIS"

\* the step-4b metadata update call, if one was issued
MetadataCalls == {i \in 1..Len(calls) : calls[i].site = "metadata"}

\* C4: with a version-line argument and a current description that holds the
\* marker, the description sent is the current one with only the text from
\* the first marker up to (not including) the next newline replaced by the
\* stripped argument; everything before it and everything from that newline
\* on, later marker lines included, is kept.
C4_OnlyFirstVersionLineReplaced ==
    LET D == item.description
        first == CHOOSE i \in 0..Len(D) :
                    /\ i # 0 => OccursAt(D, Marker, i)
                    /\ \A h \in 1..Len(D) : OccursAt(D, Marker, h) => (i # 0 /\ i <= h)
        eol == CHOOSE k \in first..(Len(D) + 1) :
                    /\ k = Len(D) + 1 \/ D[k] = "\n"
                    /\ \A h \in first..(k - 1) : D[h] # "\n"
    IN  (pc = "upload" /\ StartsWith(args.description, Marker) /\ first # 0) =>
            metadata_updates.description =
                SubSeq(D, 1, first - 1) \o Strip(args.description) \o SubSeq(D, eol, Len(D))

C4_Witness ==
    /\ pc = "upload"
    /\ run = 1
    /\ item.description = <<"v">> \o Marker \o <<"\n">> \o Marker
    /\ args.description = Marker \o <<" ", "v", "1", " ">>
    /\ metadata_updates.description = <<"v">> \o Marker \o <<" ", "v", "1", "\n">> \o Marker

\* C5: a non-empty argument that does not start with the marker is sent
\* verbatim, not stripped, as the description of the step-4b update,
\* whatever the current description is.
C5_OtherDescriptionVerbatim ==
    /\ (pc \notin {"validate", "auth", "get", "prepare"} /\ pc # "exited"
            /\ args.description # <<>> /\ ~StartsWith(args.description, Marker)) =>
          metadata_updates.description = args.description
    /\ \A i \in MetadataCalls :
          (args.description # <<>> /\ ~StartsWith(args.description, Marker)) =>
              calls[i].kw.item_properties.description = args.description

C5_Witness ==
    /\ MetadataCalls # {}
    /\ args.description = <<" ">> \o Marker \o <<"v", "1">>
    /\ Find(item.description, Marker) # 0
    /\ \A i \in MetadataCalls : calls[i].kw.item_properties.description = args.description

\* the tag lists expected for the --tags arguments of the runs checked
ExpectedTags ==
    (<<"x">> :> <<<<"x">>>>) @@ (<<"x", ",", " ", "y", " ">> :> <<<<"x">>, <<"y">>>>)

\* C6: the step-4b update carries 'title' iff --title was given, 'description'
\* iff --description was given and 'tags' iff --tags was given (as the
\* comma-split, trimmed list); a field not supplied is never written; with
\* none supplied no metadata update is issued and the only update call is
\* the file upload.
C6_OnlySuppliedFieldsSent ==
    /\ \A i \in MetadataCalls :
          LET props == calls[i].kw.item_properties
          IN  /\ \A k \in {"title", "description", "tags"} : k \in DOMAIN props <=> args[k] # <<>>
              /\ DOMAIN props \subseteq {"title", "description", "tags"}
              /\ "title" \in DOMAIN props => props.title = args.title
              /\ "tags" \in DOMAIN props => props.tags = ExpectedTags[args.tags]
    /\ ((\E j \in 1..Len(calls) : calls[j].site = "final")
            /\ \E k \in {"title", "description", "tags"} : args[k] # <<>>)
          => Cardinality(MetadataCalls) = 1
    /\ \A k \in {"title", "description", "tags"} : args[k] = <<>> => portal[k] = portal0[k]
    /\ (args.title = <<>> /\ args.description = <<>> /\ args.tags = <<>>) =>
          /\ \A j \in 1..Len(calls) : ~IsMetadataUpdate(calls[j])
          /\ (pc = "exited" /\ exit_code = 0) =>
                Cardinality({j \in 1..Len(calls) : calls[j].op = "item.update"}) = 1

C6_Witness ==
    /\ pc = "exited"
    /\ exit_code = 0
    /\ \E i \in MetadataCalls :
          /\ DOMAIN calls[i].kw.item_properties = {"tags"}
          /\ calls[i].kw.item_properties.tags = <<<<"x">>, <<"y">>>>

\* C7: when the step-4b metadata update raises or returns false after a
\* successful upload, the run goes on to verification, and it ends with exit
\* status 0 provided every later item fetch returns the item.
C7_MetadataFailureNotFatal ==
    \A i \in MetadataCalls :
        calls[i].result \in {"raise", "false"} =>
            /\ i = Len(calls) => pc = (IF args.description # <<>> THEN "verify" ELSE "final")
            /\ (pc = "exited" /\ \A j \in (i + 1)..Len(calls) :
                                    calls[j].op = "content.get" => calls[j].result = "ok")
                  => exit_code = 0

C7_Witness ==
    /\ pc = "exited"
    /\ exit_code = 0
    /\ \E i \in MetadataCalls : calls[i].result = "raise"
    /\ \E i \in 1..Len(calls) : calls[i].site = "verify" /\ calls[i].result = "ok"

\* C8: with a version-line argument, the description sent is the prepend form
\* (stripped argument, blank line, whole current description) exactly when
\* the current description holds no marker; when it holds one, pattern 1 is
\* the one that replaces, never patterns 2-5 or the line-by-line replacement.
C8_PrependIffNoMarker ==
    LET D == item.description
        occurs == \E i \in 1..Len(D) : OccursAt(D, Marker, i)
        prepended == Strip(args.description) \o <<"\n", "\n">> \o D
    IN  (pc = "upload" /\ StartsWith(args.description, Marker)) =>
            /\ metadata_updates.description = prepended <=> ~occurs
            /\ occurs => splice_via = <<"pattern", 1>>
            /\ ~occurs => splice_via = <<"prepend", 0>>

C8_Witness ==
    /\ pc = "upload"
    /\ run = 1
    /\ item.description = <<"L", " ", "v", "1">>
    /\ splice_via = <<"prepend", 0>>
    /\ metadata_updates.description = args.description \o <<"\n", "\n", "L", " ", "v", "1">>

\* C9: for an argument that starts with the marker and holds no newline, a
\* second run with the same argument, started after the first run's
\* description was stored, sends the description the first run sent.
C9_SpliceIdempotent ==
    (run = 2 /\ pc = "upload" /\ StartsWith(args.description, Marker)
        /\ \A i \in 1..Len(args.description) : args.description[i] # "\n") =>
            /\ item.description = NewDescription(portal0.description, args.description).text
            /\ metadata_updates.description = item.description

C9_Witness ==
    /\ run = 2
    /\ pc = "upload"
    /\ args.description = Marker \o <<" ", "v", "1", " ">>
    /\ portal0.description = <<"v", "\n", "1">>
    /\ item.description = Marker \o <<" ", "v", "1", "\n", "\n", "v", "\n", "1">>
    /\ metadata_updates.description = item.description

====
